---- MODULE Spec2Model ----
(***************************************************************************)
(* symfc: lattice-translation compression of 3rd-order force constants     *)
(* (symfc/utils/utils_O3.py) and the space-group representations it is     *)
(* built on (symfc/spg_reps.py).                                           *)
(*                                                                         *)
(* numpy arrays are functions on 0..n-1, so that every index of the model  *)
(* is the index of the source.  A 2-d array is a function of rows.         *)
(***************************************************************************)
EXTENDS Integers, Sequences, FiniteSets, Bags, TLC

\* Largest number of supercell atoms of a translation table handed to utils_O3.
MaxN == 4

\* Largest number of atoms of a table that is corrupted before it is handed over.
MaxCorruptedN == 3

\* The 3 x 3 x 3 Cartesian axis combinations of a rank-3 tensor element.
NAxes3 == 27

VARIABLES
    trans_perms,    \* the argument of the utils_O3 functions, shape (n_lp, N)
    atomic_idx,     \* return of get_atomic_lat_trans_decompr_indices_O3
    full_idx,       \* return of get_lat_trans_decompr_indices_O3
    mat,            \* the compression matrix built, with the call that built it
    supercell,      \* the PhonopyAtoms handed to SpgReps: lattice, positions, numbers
    symmetry,       \* the order in which spglib.get_symmetry lists the operations
    spg_reps,       \* the SpgRepsO1 / SpgRepsO2 / SpgRepsO3 object constructed
    sigma,          \* return of the last get_sigma1_rep / get_sigma2_rep call
    trace_sum,      \* trace_sum of test_spg_reps_o2
    projector       \* return of get_compr_coset_projector_O3

utils_vars == <<trans_perms, atomic_idx, full_idx, mat>>

reps_vars == <<supercell, symmetry, spg_reps, sigma, trace_sum, projector>>

vars == <<trans_perms, atomic_idx, full_idx, mat,
          supercell, symmetry, spg_reps, sigma, trace_sum, projector>>

(***************************************************************************)
(* Arrays                                                                  *)
(***************************************************************************)
Len0(a) == Cardinality(DOMAIN a)

\* list.append on an array
append(a, x) == a @@ (Len0(a) :> x)

\* The array f with every element computed: an array that is written as
\* [x \in S |-> e] is otherwise computed anew on every read of an element.
Evaluated(f) == f @@ <<>>

ZeroBased(seq) == Evaluated([i \in 0..(Len(seq) - 1) |-> seq[i + 1]])

Zeros(n) == [r \in 0..(n - 1) |-> 0]

NumRows(tp) == Len0(tp)

NumCols(tp) == Len0(tp[0])

\* for x in range(lo, hi): st = Body(x, st).  A range of several values is run
\* as its lower half and then its upper half.  Python evaluates the state st
\* before the loop starts, where a definition here is evaluated when it is first
\* read: reading DOMAIN st evaluates it here.
RECURSIVE ForRange(_, _, _, _)
ForRange(Body(_, _), lo, hi, st) ==
    IF hi <= lo \/ DOMAIN st = {} THEN st
    ELSE IF hi = lo + 1 THEN Body(lo, st)
    ELSE LET mid == (lo + hi) \div 2
         IN  ForRange(Body, mid, hi, ForRange(Body, lo, mid, st))

RECURSIVE Pow(_, _)
Pow(b, e) == IF e = 0 THEN 1 ELSE b * Pow(b, e - 1)

(***************************************************************************)
(* Translation tables: the inputs                                          *)
(***************************************************************************)
Perms(N) == {p \in [0..(N - 1) -> 0..(N - 1)] : \A a, b \in 0..(N - 1) : p[a] = p[b] => a = b}

Identity(N) == [a \in 0..(N - 1) |-> a]

Compose(p, q) == [a \in DOMAIN q |-> p[q[a]]]

\* A set of permutations that is a group and whose non-identity members move every atom.
IsFreeGroup(G, N) ==
    /\ Identity(N) \in G
    /\ \A p, q \in G : Compose(p, q) \in G
    /\ \A p \in G : p # Identity(N) => \A a \in 0..(N - 1) : p[a] # a

\* The products of the members of S, given up once they outnumber the atoms
\* (a group that acts freely on N atoms has at most N members).
RECURSIVE Closure(_, _)
Closure(S, N) ==
    LET T == S \cup {Compose(p, q) : p, q \in S}
    IN  IF T = S \/ Cardinality(T) > N THEN T ELSE Closure(T, N)

FreeGroups(N) ==
    LET F == {p \in Perms(N) : p = Identity(N) \/ \A a \in 0..(N - 1) : p[a] # a}
    IN  {G \in {Closure({Identity(N), p, q}, N) : p, q \in F} : IsFreeGroup(G, N)}

\* The key that orders permutations as numpy would order their rows.
PermKey(p) ==
    LET N == Len0(p)
        RECURSIVE Key(_)
        Key(a) == IF a = N THEN 0 ELSE p[a] * Pow(N, N - 1 - a) + Key(a + 1)
    IN  Key(0)

RowsAscending(G) ==
    [l \in 0..(Cardinality(G) - 1) |->
        CHOOSE p \in G : Cardinality({q \in G : PermKey(q) < PermKey(p)}) = l]

RowsDescending(G) ==
    [l \in 0..(Cardinality(G) - 1) |->
        CHOOSE p \in G : Cardinality({q \in G : PermKey(q) > PermKey(p)}) = l]

ValidTables ==
    UNION {UNION {{RowsAscending(G), RowsDescending(G)} : G \in FreeGroups(N)} : N \in 1..MaxN}

\* A table with its last row written twice.
DuplicateRow(tp) ==
    LET n == NumRows(tp)
    IN  [l \in 0..n |-> IF l < n THEN tp[l] ELSE tp[n - 1]]

\* A table with its last row lost.
DropRow(tp) == [l \in 0..(NumRows(tp) - 2) |-> tp[l]]

CorruptedTables ==
    LET small == {t \in ValidTables : NumCols(t) <= MaxCorruptedN}
    IN  ({DuplicateRow(tp) : tp \in {t \in small : NumCols(t) > 1}}
            \cup {DropRow(tp) : tp \in {t \in small : NumRows(t) > 1}}) \ ValidTables

Tables == ValidTables \cup CorruptedTables

IsValidTable(tp) ==
    /\ \A l, m \in DOMAIN tp : l # m => tp[l] # tp[m]
    /\ IsFreeGroup({tp[l] : l \in DOMAIN tp}, NumCols(tp))

(***************************************************************************)
(* symfc.utils.utils.get_indep_atoms_by_lat_trans                          *)
(***************************************************************************)
RECURSIVE indep_atoms_scan(_, _, _, _)
indep_atoms_scan(tp, i, assigned, unique_atoms) ==
    IF i = NumCols(tp) THEN unique_atoms
    ELSE IF i \in assigned THEN indep_atoms_scan(tp, i + 1, assigned, unique_atoms)
    ELSE indep_atoms_scan(tp, i + 1, assigned \cup {tp[l][i] : l \in DOMAIN tp},
                          [x \in 0..Len0(unique_atoms) |->
                              IF x < Len0(unique_atoms) THEN unique_atoms[x] ELSE i])

\* One representative atom of every orbit of the translations, in increasing order.
get_indep_atoms_by_lat_trans(tp) == indep_atoms_scan(tp, 0, {}, <<>>)

(***************************************************************************)
(* utils_O3.get_atomic_lat_trans_decompr_indices_O3                        *)
(***************************************************************************)
\* indices[index_shift] = n, index_shift holding one position per table row.
assign_at(indices, index_shift, n) ==
    ForRange(LAMBDA l, ind : [ind EXCEPT ![index_shift[l]] = n], 0, Len0(index_shift), indices)

\* atomic_body_k with the third atom of the triple left untranslated.
atomic_body_k_untranslated(tp, index_shift_j, k, st) ==
    LET index_shift == [l \in DOMAIN tp |-> index_shift_j[l] + k]
    IN  <<st[1] + 1, assign_at(st[2], index_shift, st[1])>>

\* The loops carry <<n, indices>>.  The body of "for k in range(N)".
atomic_body_k(tp, index_shift_j, k, st) ==
    LET index_shift == [l \in DOMAIN tp |-> index_shift_j[l] + tp[l][k]]
    IN  <<st[1] + 1, assign_at(st[2], index_shift, st[1])>>

\* The body of "for j in range(N)".
atomic_body_j(tp, index_shift_i, j, st) ==
    LET N == NumCols(tp)
        index_shift_j == [l \in DOMAIN tp |-> index_shift_i[l] + tp[l][j] * N]
    IN  ForRange(LAMBDA k, s : atomic_body_k(tp, index_shift_j, k, s), 0, N, st)

\* The body of "for i_patom in indep_atoms".
atomic_body_i(tp, i_patom, st) ==
    LET N == NumCols(tp)
        index_shift_i == [l \in DOMAIN tp |-> tp[l][i_patom] * N * N]
    IN  ForRange(LAMBDA j, s : atomic_body_j(tp, index_shift_i, j, s), 0, N, st)

\* The count n and the array as the loops leave them, before the assertion.
atomic_loops(tp) ==
    LET indep_atoms == get_indep_atoms_by_lat_trans(tp)
        size_row == Pow(NumCols(tp), 3)
    IN  ForRange(LAMBDA x, s : atomic_body_i(tp, indep_atoms[x], s),
                 0, Len0(indep_atoms), <<0, Zeros(size_row)>>)

\* assert n * n_lp == size_row, n_lp being the number of rows of the table.
atomic_assertion(tp, n) == n * NumRows(tp) = Pow(NumCols(tp), 3)

get_atomic_lat_trans_decompr_indices_O3(tp) ==
    LET st == atomic_loops(tp)
    IN  IF atomic_assertion(tp, st[1])
        THEN [status |-> "returned", n |-> st[1], indices |-> st[2]]
        ELSE [status |-> "AssertionError", n |-> st[1], indices |-> <<>>]

(***************************************************************************)
(* utils_O3.get_lat_trans_decompr_indices_O3                               *)
(***************************************************************************)
\* full_body_ab without its "n += 1".
full_body_ab_same_id(index_shift, ab, st) ==
    <<st[1], assign_at(st[2], [l \in DOMAIN index_shift |-> index_shift[l] + ab], st[1])>>

\* The body of "for ab in range(27)".
full_body_ab(index_shift, ab, st) ==
    <<st[1] + 1, assign_at(st[2], [l \in DOMAIN index_shift |-> index_shift[l] + ab], st[1])>>

\* The body of "for k in range(N)".
full_body_k(tp, index_shift_j, k, st) ==
    LET index_shift == [l \in DOMAIN tp |-> index_shift_j[l] + tp[l][k] * NAxes3]
    IN  ForRange(LAMBDA ab, s : full_body_ab(index_shift, ab, s), 0, NAxes3, st)

\* full_body_j with the second atom weighted by 27 in place of 27 N.
full_body_j_weight(tp, index_shift_i, j, st) ==
    LET N == NumCols(tp)
        index_shift_j == [l \in DOMAIN tp |-> index_shift_i[l] + tp[l][j] * NAxes3]
    IN  ForRange(LAMBDA k, s : full_body_k(tp, index_shift_j, k, s), 0, N, st)

\* The body of "for j in range(N)".
full_body_j(tp, index_shift_i, j, st) ==
    LET N == NumCols(tp)
        index_shift_j == [l \in DOMAIN tp |-> index_shift_i[l] + tp[l][j] * N * NAxes3]
    IN  ForRange(LAMBDA k, s : full_body_k(tp, index_shift_j, k, s), 0, N, st)

\* The body of "for i_patom in indep_atoms".
full_body_i(tp, i_patom, st) ==
    LET N == NumCols(tp)
        index_shift_i == [l \in DOMAIN tp |-> tp[l][i_patom] * N * N * NAxes3]
    IN  ForRange(LAMBDA j, s : full_body_j(tp, index_shift_i, j, s), 0, N, st)

full_loops(tp) ==
    LET indep_atoms == get_indep_atoms_by_lat_trans(tp)
        size_row == NAxes3 * Pow(NumCols(tp), 3)
    IN  ForRange(LAMBDA x, s : full_body_i(tp, indep_atoms[x], s),
                 0, Len0(indep_atoms), <<0, Zeros(size_row)>>)

\* n_lp = N // n_a; assert n * n_lp == size_row.
full_assertion(tp, n) ==
    LET n_a == Len0(get_indep_atoms_by_lat_trans(tp))
        n_lp == NumCols(tp) \div n_a
    IN  n * n_lp = NAxes3 * Pow(NumCols(tp), 3)

get_lat_trans_decompr_indices_O3(tp) ==
    LET st == full_loops(tp)
    IN  IF full_assertion(tp, st[1])
        THEN [status |-> "returned", n |-> st[1], indices |-> st[2]]
        ELSE [status |-> "AssertionError", n |-> st[1], indices |-> <<>>]

(***************************************************************************)
(* utils_O3._get_lat_trans_compr_matrix_O3, get_lat_trans_compr_matrix_O3  *)
(***************************************************************************)
\* 1 / n_lp in place of 1 / np.sqrt(n_lp).
InvSqrt_unrooted(n_lp) == [num |-> 1, den_sq |-> n_lp * n_lp]

\* 1 / np.sqrt(n_lp), kept exact: the number num / sqrt(den_sq).
InvSqrt(n_lp) == [num |-> 1, den_sq |-> n_lp]

\* scipy's csr_array((data, (row, col)), shape): the three arrays must have one
\* length and every index must lie inside the shape; the matrix is kept as its
\* triplets, entries on one place adding up.
csr_array(data, row, col, shape) ==
    IF Len0(row) # Len0(data) \/ Len0(col) # Len0(data)
    THEN [status |-> "ValueError"]
    ELSE IF \E x \in DOMAIN data :
                \/ row[x] < 0 \/ row[x] >= shape[1]
                \/ col[x] < 0 \/ col[x] >= shape[2]
    THEN [status |-> "ValueError"]
    ELSE [status |-> "returned", shape |-> shape,
          row |-> Evaluated(row), col |-> Evaluated(col), data |-> Evaluated(data)]

\* _get_lat_trans_compr_matrix_O3 with as many columns as rows.
_get_lat_trans_compr_matrix_O3_square(decompr_idx, N, n_lp) ==
    LET NNN27 == Pow(N, 3) * NAxes3
    IN  csr_array([x \in 0..(NNN27 - 1) |-> InvSqrt(n_lp)],
                  [x \in 0..(NNN27 - 1) |-> x],
                  decompr_idx,
                  <<NNN27, NNN27>>)

_get_lat_trans_compr_matrix_O3(decompr_idx, N, n_lp) ==
    LET NNN27 == Pow(N, 3) * NAxes3
    IN  csr_array([x \in 0..(NNN27 - 1) |-> InvSqrt(n_lp)],
                  [x \in 0..(NNN27 - 1) |-> x],
                  decompr_idx,
                  <<NNN27, NNN27 \div n_lp>>)

get_lat_trans_compr_matrix_O3(tp) ==
    LET n_lp == NumRows(tp)
        N == NumCols(tp)
        decompr_idx == get_lat_trans_decompr_indices_O3(tp)
    IN  IF decompr_idx.status # "returned"
        THEN [status |-> decompr_idx.status]
        ELSE _get_lat_trans_compr_matrix_O3(decompr_idx.indices, N, n_lp)

NotCalled == [status |-> "not called"]


Init ==
    /\ trans_perms \in Tables
    /\ atomic_idx = NotCalled
    /\ full_idx = NotCalled
    /\ mat = NotCalled
    /\ supercell = NotCalled
    /\ symmetry = NotCalled
    /\ spg_reps = NotCalled
    /\ sigma = NotCalled
    /\ trace_sum = NotCalled
    /\ projector = NotCalled

\* One session calls the functions in the order of the file: the atomic index
\* builder, the full index builder, then one of the matrix builders.
CallAtomicDecomprIndices ==
    /\ atomic_idx = NotCalled
    /\ full_idx = NotCalled
    /\ mat = NotCalled
    /\ atomic_idx' = get_atomic_lat_trans_decompr_indices_O3(trans_perms)
    /\ UNCHANGED <<trans_perms, full_idx, mat, reps_vars>>

CallDecomprIndices ==
    /\ full_idx = NotCalled
    /\ mat = NotCalled
    /\ full_idx' = get_lat_trans_decompr_indices_O3(trans_perms)
    /\ UNCHANGED <<trans_perms, atomic_idx, mat, reps_vars>>

\* get_lat_trans_compr_matrix_O3 builds its index array itself.
CallComprMatrix ==
    /\ mat = NotCalled
    /\ full_idx = NotCalled
    /\ mat' = [call |-> "get_lat_trans_compr_matrix_O3",
               ret |-> get_lat_trans_compr_matrix_O3(trans_perms)]
    /\ UNCHANGED <<trans_perms, atomic_idx, full_idx, reps_vars>>

\* _get_lat_trans_compr_matrix_O3 called on the array that one of the two index
\* builders returned, with the N and n_lp of the table.
CallComprMatrixOn(builder) ==
    /\ mat = NotCalled
    /\ LET idx == IF builder = "atomic" THEN atomic_idx ELSE full_idx
       IN  /\ idx.status = "returned"
           /\ mat' = [call |-> "_get_lat_trans_compr_matrix_O3",
                      arg |-> builder,
                      ret |-> _get_lat_trans_compr_matrix_O3(
                                  idx.indices, NumCols(trans_perms), NumRows(trans_perms))]
    /\ UNCHANGED <<trans_perms, atomic_idx, full_idx, reps_vars>>

Next ==
    \/ CallAtomicDecomprIndices
    \/ CallDecomprIndices
    \/ CallComprMatrix
    \/ \E builder \in {"atomic", "full"} : CallComprMatrixOn(builder)

Spec == Init /\ [][Next]_vars

(***************************************************************************)
(* Properties of the index builders and of the compression matrix          *)
(***************************************************************************)
\* How often each value occurs in an array: the bag of its values.
ValueCounts(a) == BagOfAll(LAMBDA r : a[r], SetToBag(DOMAIN a))

N_ == NumCols(trans_perms)

n_lp_ == NumRows(trans_perms)

AtomicReturned == atomic_idx.status = "returned"

FullReturned == full_idx.status = "returned"

\* Raw index of the atom triple (i, j, k).
Raw3(i, j, k) == i * N_ * N_ + j * N_ + k

\* The triple (i, j, k) moved by translation l.
Translated3(l, i, j, k) == Raw3(trans_perms[l][i], trans_perms[l][j], trans_perms[l][k])

\* C2: on a valid table both index arrays are constant on the translates of every
\* atom triple (i, j, k), whatever its first atom, for each of the 27 axis
\* combinations.
C2_TranslationInvariance ==
    IsValidTable(trans_perms) =>
        /\ AtomicReturned =>
               \A l \in DOMAIN trans_perms : \A i, j, k \in 0..(N_ - 1) :
                   atomic_idx.indices[Raw3(i, j, k)] = atomic_idx.indices[Translated3(l, i, j, k)]
        /\ FullReturned =>
               \A l \in DOMAIN trans_perms : \A i, j, k \in 0..(N_ - 1) : \A ab \in 0..(NAxes3 - 1) :
                   full_idx.indices[NAxes3 * Raw3(i, j, k) + ab]
                       = full_idx.indices[NAxes3 * Translated3(l, i, j, k) + ab]

\* Both builders have returned on a valid table of two translations and two
\* independent atoms.
C2_Witness ==
    /\ IsValidTable(trans_perms)
    /\ n_lp_ = 2 /\ N_ = 4
    /\ AtomicReturned /\ FullReturned

Max(S) == CHOOSE m \in S : \A v \in S : v <= m

\* An index array of the given length takes each value of 0..(ids - 1), and no
\* other, at exactly n_lp positions.
EachIdTimes(indices, length, ids, n_lp) ==
    /\ Len0(indices) = length
    /\ ValueCounts(indices) = [v \in 0..(ids - 1) |-> n_lp]
    /\ (Max({indices[r] : r \in DOMAIN indices}) + 1) * n_lp = Len0(indices)

\* C3: on a valid table neither builder fails; the atomic array has length N^3 and
\* takes every id of [0, n_a N^2) exactly n_lp times, the full array has length
\* 27 N^3 and takes every id of [0, 27 n_a N^2) exactly n_lp times; every id is
\* still at each position it was written to.
C3_ContiguousIdsEachNlpTimes ==
    IsValidTable(trans_perms) =>
        LET n_a == N_ \div n_lp_
            indep_atoms == get_indep_atoms_by_lat_trans(trans_perms)
        IN  /\ atomic_idx # NotCalled =>
                /\ AtomicReturned
                /\ EachIdTimes(atomic_idx.indices, N_ * N_ * N_, n_a * N_ * N_, n_lp_)
                /\ \A x \in DOMAIN indep_atoms : \A j, k \in 0..(N_ - 1) : \A l \in DOMAIN trans_perms :
                       atomic_idx.indices[Translated3(l, indep_atoms[x], j, k)] = (x * N_ + j) * N_ + k
            /\ full_idx # NotCalled =>
                /\ FullReturned
                /\ EachIdTimes(full_idx.indices, NAxes3 * N_ * N_ * N_,
                               NAxes3 * n_a * N_ * N_, n_lp_)
                /\ \A x \in DOMAIN indep_atoms : \A j, k \in 0..(N_ - 1) : \A l \in DOMAIN trans_perms :
                     \A ab \in 0..(NAxes3 - 1) :
                       full_idx.indices[NAxes3 * Translated3(l, indep_atoms[x], j, k) + ab]
                           = NAxes3 * ((x * N_ + j) * N_ + k) + ab

\* Both builders have run on a valid table with several translations and several
\* independent atoms.
C3_Witness ==
    /\ IsValidTable(trans_perms)
    /\ n_lp_ > 1 /\ N_ > n_lp_
    /\ atomic_idx # NotCalled /\ full_idx # NotCalled

MatBy(call) == mat # NotCalled /\ mat.call = call

\* C4: on a valid table get_lat_trans_compr_matrix_O3 returns a matrix of
\* 27 N^3 / n_lp columns in which every row holds one entry, every column holds
\* exactly n_lp entries, and every entry is 1/sqrt(n_lp): two columns share no
\* row and the squared norm of a column, n_lp * (1 / n_lp), is 1.
C4_OrthonormalColumns ==
    IsValidTable(trans_perms) /\ MatBy("get_lat_trans_compr_matrix_O3") =>
        LET C == mat.ret
            NNN27 == NAxes3 * N_ * N_ * N_
        IN  /\ C.status = "returned"
            /\ C.shape = <<NNN27, NNN27 \div n_lp_>>
            /\ (NNN27 \div n_lp_) * n_lp_ = NNN27
            /\ ValueCounts(C.row) = [r \in 0..(C.shape[1] - 1) |-> 1]
            /\ ValueCounts(C.col) = [c \in 0..(C.shape[2] - 1) |-> n_lp_]
            /\ \A x \in DOMAIN C.data :
                   /\ C.data[x].num = 1
                   /\ n_lp_ * C.data[x].num * C.data[x].num = C.data[x].den_sq

\* The compression matrix of a valid table of several translations and several
\* independent atoms has been built.
C4_Witness ==
    /\ IsValidTable(trans_perms)
    /\ n_lp_ > 1 /\ N_ > n_lp_
    /\ MatBy("get_lat_trans_compr_matrix_O3")
    /\ mat.ret.status = "returned"

\* The array handed to a direct call of _get_lat_trans_compr_matrix_O3.
DirectArg == IF mat.arg = "atomic" THEN atomic_idx.indices ELSE full_idx.indices

\* The matrix has one entry in each row r, at column decompr_idx[r], of value
\* 1/sqrt(n_lp), and the shape (size, size / n_lp), size the length of decompr_idx.
OneEntryPerRow(M, decompr_idx, n_lp) ==
    /\ M.status = "returned"
    /\ M.shape = <<Len0(decompr_idx), Len0(decompr_idx) \div n_lp>>
    /\ M.row = [r \in 0..(Len0(decompr_idx) - 1) |-> r]
    /\ M.col = decompr_idx
    /\ M.data = [r \in 0..(Len0(decompr_idx) - 1) |-> [num |-> 1, den_sq |-> n_lp]]

\* C8 as stated: whichever of the two index arrays is handed to
\* _get_lat_trans_compr_matrix_O3, the matrix returned has one entry per row of
\* the array.
C8_AnyIndexArray ==
    MatBy("_get_lat_trans_compr_matrix_O3") => OneEntryPerRow(mat.ret, DirectArg, n_lp_)

\* C8, amended: handed the length-27 N^3 array of a valid table, the function
\* returns the matrix with one entry per row; handed the length-N^3 array of the
\* atomic builder it raises ValueError, its row and data arrays having 27 N^3
\* entries.
C8_FullIndexArray ==
    MatBy("_get_lat_trans_compr_matrix_O3") =>
        /\ mat.arg = "full" /\ IsValidTable(trans_perms) =>
               OneEntryPerRow(mat.ret, full_idx.indices, n_lp_)
        /\ mat.arg = "atomic" => mat.ret.status = "ValueError"

\* The function has been called on the full index array of a valid table with
\* several translations.
C8_Witness ==
    /\ MatBy("_get_lat_trans_compr_matrix_O3")
    /\ mat.arg = "full"
    /\ IsValidTable(trans_perms)
    /\ n_lp_ > 1 /\ N_ > n_lp_

\* C9 as stated: the full builder fails exactly when the number of ids it assigned
\* times the number of rows of the table differs from 27 N^3, which is exactly
\* when the atomic builder fails.
C9_SameConsistencyCheck ==
    /\ full_idx # NotCalled =>
           (full_idx.status = "AssertionError"
                <=> full_idx.n * n_lp_ # NAxes3 * N_ * N_ * N_)
    /\ full_idx # NotCalled /\ atomic_idx # NotCalled =>
           (full_idx.status = "AssertionError" <=> atomic_idx.status = "AssertionError")

\* C10: on a valid table the full array is the atomic array spread over the 27 axis
\* combinations: full[27 x + ab] = 27 atomic[x] + ab.
C10_BuildersAgree ==
    IsValidTable(trans_perms) /\ AtomicReturned /\ FullReturned =>
        \A x \in 0..(N_ * N_ * N_ - 1) : \A ab \in 0..(NAxes3 - 1) :
            full_idx.indices[NAxes3 * x + ab] = NAxes3 * atomic_idx.indices[x] + ab

\* Both arrays exist for a valid table whose translations form a group of four.
C10_Witness ==
    /\ IsValidTable(trans_perms)
    /\ n_lp_ = 4
    /\ AtomicReturned /\ FullReturned

(***************************************************************************)
(* symfc/spg_reps.py: the supercell and its symmetry operations            *)
(*                                                                         *)
(* A supercell is a record [lattice, grid, positions, numbers].  The basis *)
(* vectors are orthogonal with integer lengths lattice[0..2]; the scaled   *)
(* position of atom a is positions[a] / grid, a point of (Z_grid)^3.       *)
(* A rotation is a 3 x 3 integer matrix acting on scaled positions, a      *)
(* translation is a point of (Z_grid)^3.                                   *)
(***************************************************************************)
\* Largest number of atoms of a chain supercell.
MaxAtoms == 3

\* The atoms of a chain supercell are Na or Cl.
Species == {11, 17}

Axes == 0..2

eye3 == [i \in Axes |-> [j \in Axes |-> IF i = j THEN 1 ELSE 0]]

\* The integer matrices that keep an orthogonal lattice have one entry +1 or -1
\* in each row and each column: number n is the permutation n // 8 of the
\* axes with the signs of the bits of n % 8, number 0 the identity.
AxisPermutations ==
    ZeroBased(<<ZeroBased(<<0, 1, 2>>), ZeroBased(<<0, 2, 1>>), ZeroBased(<<1, 0, 2>>),
                ZeroBased(<<1, 2, 0>>), ZeroBased(<<2, 0, 1>>), ZeroBased(<<2, 1, 0>>)>>)

signed_permutation(n) ==
    LET p  == AxisPermutations[n \div 8]
        sg == [i \in Axes |-> IF (n \div Pow(2, i)) % 2 = 0 THEN 1 ELSE -1]
    IN  Evaluated([i \in Axes |-> Evaluated([j \in Axes |-> IF j = p[i] THEN sg[i] ELSE 0])])

\* A rotation keeps the lattice when it exchanges only basis vectors of the same
\* length.
keeps_lattice(lattice, r) ==
    \A i, j \in Axes : r[i][j] # 0 => lattice[i] = lattice[j]

\* The rotations of the lattice as an array, the identity first.
rotation_list(lattice) ==
    ForRange(LAMBDA n, st :
                 IF keeps_lattice(lattice, signed_permutation(n))
                 THEN <<append(st[1], signed_permutation(n))>>
                 ELSE st,
             0, 48, <<(<<>>)>>)[1]

\* The translation number k of the grid.
translation(grid, k) ==
    Evaluated([i \in Axes |-> CASE i = 0 -> k \div (grid * grid)
                                [] i = 1 -> (k \div grid) % grid
                                [] i = 2 -> k % grid])

\* positions @ r.T + t, modulo the lattice
rot_pos(cell, r, t, a) ==
    Evaluated([i \in Axes |->
        (r[i][0] * cell.positions[a][0] + r[i][1] * cell.positions[a][1]
            + r[i][2] * cell.positions[a][2] + t[i]) % cell.grid])

atom_at(cell, pos) == CHOOSE b \in DOMAIN cell.positions : cell.positions[b] = pos

\* (r, t) is a symmetry operation: it sends every atom onto an atom of the same
\* species.
is_symmetry(cell, r, t) ==
    \A a \in DOMAIN cell.positions :
        \E b \in DOMAIN cell.positions :
            /\ cell.positions[b] = rot_pos(cell, r, t, a)
            /\ cell.numbers[b] = cell.numbers[a]

\* The orders in which the operations are listed: grouped by rotation or
\* grouped by translation, from the identity on or towards it.
Orders == {"rotation-major", "translation-major", "reversed"}

reversed(a) == Evaluated([x \in DOMAIN a |-> a[Len0(a) - 1 - x]])

\* spglib.get_symmetry: all symmetry operations of the cell, as an array.
get_symmetry(cell, order) ==
    LET n_t == Pow(cell.grid, 3)
        listed(rots) ==
            LET n_r == Len0(rots)
                op(k) == IF order = "translation-major"
                         THEN [rotation |-> rots[k % n_r],
                               translation |-> translation(cell.grid, k \div n_r)]
                         ELSE [rotation |-> rots[k \div n_t],
                               translation |-> translation(cell.grid, k % n_t)]
            IN  ForRange(LAMBDA k, st :
                             IF is_symmetry(cell, op(k).rotation, op(k).translation)
                             THEN <<append(st[1], op(k))>>
                             ELSE st,
                         0, n_r * n_t, <<(<<>>)>>)[1]
        ordered(ops) == IF order = "reversed" THEN reversed(ops) ELSE ops
    IN  ordered(listed(rotation_list(cell.lattice)))

\* phonopy compute_all_sg_permutations: positions[perm[a]] = positions[a] @ r.T + t
compute_all_sg_permutations(cell, rotations, translations) ==
    Evaluated([s \in DOMAIN rotations |->
        Evaluated([a \in DOMAIN cell.positions |->
            atom_at(cell, rot_pos(cell, rotations[s], translations[s], a))])])

\* The supercells: chains of 1..MaxAtoms equidistant atoms along the first
\* basis vector, the first atom Na and every other atom Na or Cl, in a
\* tetragonal and an orthorhombic lattice; ...
ChainLattices == {<<2, 1, 1>>, <<3, 2, 1>>}

ChainCell(lattice, numbers) ==
    [lattice |-> ZeroBased(lattice), grid |-> Len0(numbers),
     positions |-> Evaluated([a \in DOMAIN numbers |->
                       Evaluated([i \in Axes |-> IF i = 0 THEN a ELSE 0])]),
     numbers |-> numbers]

ChainCells ==
    UNION {{ChainCell(l, nums) :
                l \in ChainLattices,
                nums \in {f \in [0..(n - 1) -> Species] : f[0] = 11}} :
              n \in 1..MaxAtoms}

\* ... one atom in a cubic cell; ...
cell_cubic_1 == ChainCell(<<1, 1, 1>>, ZeroBased(<<11>>))

\* ... and the conventional unit cell of NaCl, 4 Na and 4 Cl.
cell_nacl_111 ==
    [lattice |-> ZeroBased(<<1, 1, 1>>), grid |-> 2,
     positions |-> ZeroBased(<<ZeroBased(<<0, 0, 0>>), ZeroBased(<<0, 1, 1>>),
                               ZeroBased(<<1, 0, 1>>), ZeroBased(<<1, 1, 0>>),
                               ZeroBased(<<1, 1, 1>>), ZeroBased(<<1, 0, 0>>),
                               ZeroBased(<<0, 1, 0>>), ZeroBased(<<0, 0, 1>>)>>),
     numbers |-> ZeroBased(<<11, 11, 11, 11, 17, 17, 17, 17>>)]

Supercells == ChainCells \cup {cell_cubic_1, cell_nacl_111}

(***************************************************************************)
(* symfc/spg_reps.py: SpgReps, SpgRepsO1, SpgRepsO2                        *)
(***************************************************************************)
_get_translation_permutations(permutations, rotations) ==
    ForRange(LAMBDA s, st :
                 IF rotations[s] = eye3 THEN <<append(st[1], permutations[s])>> ELSE st,
             0, Len0(rotations), <<(<<>>)>>)[1]

\* _get_unique_rotation_indices that compares with the previous rotation only.
_get_unique_rotation_indices_previous(rotations) ==
    ForRange(LAMBDA i, st :
                 LET is_found == i > 0 /\ rotations[i] = rotations[i - 1]
                 IN  IF ~is_found
                     THEN <<append(st[1], rotations[i]), append(st[2], i)>>
                     ELSE st,
             0, Len0(rotations), <<(<<>>), (<<>>)>>)[2]

\* The state of the loop is <<unique_rotations, indices>>.
_get_unique_rotation_indices(rotations) ==
    ForRange(LAMBDA i, st :
                 LET is_found == \E u \in DOMAIN st[1] : rotations[i] = st[1][u]
                 IN  IF ~is_found
                     THEN <<append(st[1], rotations[i]), append(st[2], i)>>
                     ELSE st,
             0, Len0(rotations), <<(<<>>), (<<>>)>>)[2]

_get_symops(cell, order) ==
    LET arrays(symops) ==
            [rotations |-> Evaluated([s \in DOMAIN symops |-> symops[s].rotation]),
             translations |-> Evaluated([s \in DOMAIN symops |-> symops[s].translation])]
    IN  arrays(get_symmetry(cell, order))

SpgReps_prepare(cell, order) ==
    LET prepared(rotations, permutations) ==
            [rotations |-> rotations,
             _lattice |-> cell.lattice,
             _numbers |-> cell.numbers,
             _permutations |-> permutations,
             _translation_permutations |-> _get_translation_permutations(permutations, rotations),
             _unique_rotation_indices |-> _get_unique_rotation_indices(rotations)]
        permuted(symops) ==
            prepared(symops.rotations,
                     compute_all_sg_permutations(cell, symops.rotations, symops.translations))
    IN  permuted(_get_symops(cell, order))

\* lattice.T @ r @ inv(lattice.T) for the orthogonal lattice: the quotient is
\* exact for every rotation of the lattice point group.
r_cartesian(lattice, r) ==
    Evaluated([i \in Axes |->
        Evaluated([j \in Axes |-> (lattice[i] * r[i][j]) \div lattice[j]])])

\* np.kron of two dense square matrices
np_kron(a, b) ==
    LET nb == Len0(b)
        n  == Len0(a) * nb
    IN  Evaluated([i \in 0..(n - 1) |-> Evaluated([j \in 0..(n - 1) |->
            a[i \div nb][j \div nb] * b[i % nb][j % nb]])])

\* row, col = np.nonzero(np.abs(rep) > tol); data = rep[(row, col)];
\* coo_array((data, (row, col)), shape=rep.shape)
coo_of_dense(rep) ==
    LET n == Len0(rep)
        triplets(nz) ==
            [shape |-> <<n, n>>,
             row  |-> Evaluated([x \in DOMAIN nz |-> nz[x] \div n]),
             col  |-> Evaluated([x \in DOMAIN nz |-> nz[x] % n]),
             data |-> Evaluated([x \in DOMAIN nz |-> rep[nz[x] \div n][nz[x] % n]])]
    IN  triplets(ForRange(LAMBDA k, st :
                              IF rep[k \div n][k % n] # 0 THEN <<append(st[1], k)>> ELSE st,
                          0, n * n, <<(<<>>)>>)[1])

_compute_r1_reps(self) ==
    LET uri == self._unique_rotation_indices
    IN  Evaluated([x \in DOMAIN uri |->
            coo_of_dense(r_cartesian(self._lattice, self.rotations[uri[x]]))])

_compute_r2_reps(self) ==
    LET uri == self._unique_rotation_indices
        r2(r_c) == coo_of_dense(np_kron(r_c, r_c))
    IN  Evaluated([x \in DOMAIN uri |->
            r2(r_cartesian(self._lattice, self.rotations[uri[x]]))])

\* coo_array((data, (row, col)), shape=shape) keeps the triplets it is given.
coo_array(data, row, col, shape) ==
    [shape |-> shape, row |-> Evaluated(row), col |-> Evaluated(col), data |-> Evaluated(data)]

SpgRepsO1_prepare(cell, order) ==
    LET N == Len0(cell.numbers)
        prepared(self) ==
            [cls |-> "SpgRepsO1", base |-> self,
             _col |-> Evaluated([a \in 0..(N - 1) |-> a]),
             _data |-> Evaluated([a \in 0..(N - 1) |-> 1]),
             r_reps |-> _compute_r1_reps(self)]
    IN  prepared(SpgReps_prepare(cell, order))

_get_sigma1_rep_data(self, i) ==
    LET uri == self.base._unique_rotation_indices
        permutation == self.base._permutations[uri[i]]
        N == Len0(self.base._numbers)
        row == permutation
    IN  [data |-> self._data, row |-> row, col |-> self._col, shape |-> <<N, N>>]

get_sigma1_rep(self, i) ==
    LET array(d) == coo_array(d.data, d.row, d.col, d.shape)
    IN  array(_get_sigma1_rep_data(self, i))

\* np.stack(np.meshgrid(a, a), axis=-1).reshape(-1, 2): pair number x is
\* (a[x % N], a[x // N]).
meshgrid_pairs(N) == Evaluated([x \in 0..(N * N - 1) |-> <<x % N, x \div N>>])

\* pairs @ coeff with both weights 1
dot_coeff_unweighted(pairs, coeff) ==
    Evaluated([x \in DOMAIN pairs |-> pairs[x][1] + pairs[x][2]])

\* pairs @ coeff
dot_coeff(pairs, coeff) ==
    Evaluated([x \in DOMAIN pairs |-> pairs[x][1] * coeff[1] + pairs[x][2] * coeff[2]])

SpgRepsO2_prepare(cell, order) ==
    LET N == Len0(cell.numbers)
        coeff == <<1, N>>
        prepared(self, atom_pairs) ==
            [cls |-> "SpgRepsO2", base |-> self,
             _atom_pairs |-> atom_pairs,
             _coeff |-> coeff,
             _col |-> dot_coeff(atom_pairs, coeff),
             _data |-> Evaluated([x \in 0..(N * N - 1) |-> 1]),
             r_reps |-> _compute_r2_reps(self)]
    IN  prepared(SpgReps_prepare(cell, order), meshgrid_pairs(N))

\* _get_sigma2_rep_data with the rows of the permuted pairs (b, a)
_get_sigma2_rep_data_swapped(self, i) ==
    LET uri == self.base._unique_rotation_indices
        permutation == self.base._permutations[uri[i]]
        NN == Pow(Len0(self.base._numbers), 2)
        row == dot_coeff([x \in DOMAIN self._atom_pairs |->
                             <<permutation[self._atom_pairs[x][2]],
                               permutation[self._atom_pairs[x][1]]>>],
                         self._coeff)
    IN  [data |-> self._data, row |-> row, col |-> self._col, shape |-> <<NN, NN>>]

_get_sigma2_rep_data(self, i) ==
    LET uri == self.base._unique_rotation_indices
        permutation == self.base._permutations[uri[i]]
        NN == Pow(Len0(self.base._numbers), 2)
        row == dot_coeff(Evaluated([x \in DOMAIN self._atom_pairs |->
                                       <<permutation[self._atom_pairs[x][1]],
                                         permutation[self._atom_pairs[x][2]]>>]),
                         self._coeff)
    IN  [data |-> self._data, row |-> row, col |-> self._col, shape |-> <<NN, NN>>]

get_sigma2_rep(self, i) ==
    LET array(d) == coo_array(d.data, d.row, d.col, d.shape)
    IN  array(_get_sigma2_rep_data(self, i))

RECURSIVE SumOver(_, _)
SumOver(f, S) ==
    IF S = {} THEN 0
    ELSE LET x == CHOOSE y \in S : TRUE
         IN  f[x] + SumOver(f, S \ {x})

\* coo_array.toarray(): entries of the same position are added up.
toarray(m) ==
    LET dense_row(in_row) ==
            Evaluated([c \in 0..(m.shape[2] - 1) |->
                SumOver(m.data, {x \in in_row : m.col[x] = c})])
    IN  Evaluated([r \in 0..(m.shape[1] - 1) |->
            dense_row({x \in DOMAIN m.row : m.row[x] = r})])

np_trace(dense) == SumOver([r \in DOMAIN dense |-> dense[r][r]], DOMAIN dense)

\* tests/spg_reps/test_spg_reps_O2.py: the loop over the coset representatives.
test_trace_sum(self) ==
    ForRange(LAMBDA i, st :
                 LET s_r == toarray(get_sigma2_rep(self, i))
                 IN  <<st[1] + np_trace(s_r)>>,
             0, Len0(self.base._unique_rotation_indices), <<0>>)[1]

(***************************************************************************)
(* SpgRepsO3 (symfc/spg_reps/spg_reps_O3.py), as the rank-3 specialization *)
(* of the classes above                                                    *)
(***************************************************************************)
_compute_r3_reps(self) ==
    LET uri == self._unique_rotation_indices
        r3(r_c) == coo_of_dense(np_kron(r_c, np_kron(r_c, r_c)))
    IN  Evaluated([x \in DOMAIN uri |->
            r3(r_cartesian(self._lattice, self.rotations[uri[x]]))])

SpgRepsO3_prepare(cell, order) ==
    LET prepared(self) ==
            [cls |-> "SpgRepsO3", base |-> self, r_reps |-> _compute_r3_reps(self)]
    IN  prepared(SpgReps_prepare(cell, order))

\* The row indices of the permutation matrix of atom triples: the triple
\* (a, b, c) stands at (a * N + b) * N + c, its image at the place of
\* (p[a], p[b], p[c]).
get_sigma3_rep(self, i) ==
    LET uri == self.base._unique_rotation_indices
        p == self.base._permutations[uri[i]]
        N == Len0(self.base._numbers)
    IN  Evaluated([x \in 0..(Pow(N, 3) - 1) |->
            (p[x \div (N * N)] * N + p[(x \div N) % N]) * N + p[x % N]])

(***************************************************************************)
(* utils_O3.get_compr_coset_projector_O3, fc_cutoff = None, c_pt = None    *)
(*                                                                         *)
(* A csr matrix that is computed with is [shape, den, rows]: the entry at  *)
(* (r, c) is rows[r][c] / den where c is in DOMAIN rows[r], and 0          *)
(* elsewhere.                                                              *)
(***************************************************************************)
\* The csr matrix of triplets: entries of the same position are added up.
sum_duplicates(m) ==
    LET csr_row(in_row) ==
            Evaluated([c \in {m.col[x] : x \in in_row} |->
                SumOver(m.data, {x \in in_row : m.col[x] = c})])
    IN  [shape |-> m.shape, den |-> 1,
         rows |-> Evaluated([r \in 0..(m.shape[1] - 1) |->
                     csr_row({x \in DOMAIN m.row : m.row[x] = r})])]

\* factor = 1 / n_lp / len(spg_reps.unique_rotation_indices), kept exact
coset_factor(n_lp, n_coset) == [num |-> 1, den |-> n_lp * n_coset]

\* r_reps[i] * factor
scaled(rep, factor) ==
    [shape |-> rep.shape, den |-> factor.den, row |-> rep.row, col |-> rep.col,
     data |-> Evaluated([x \in DOMAIN rep.data |-> rep.data[x] * factor.num])]

\* scipy.sparse.kron(a, b): a a csr matrix, b a coo matrix
kron(a, b) ==
    LET nr == b.shape[1]
        nc == b.shape[2]
        product(b_rows) ==
            [shape |-> <<a.shape[1] * nr, a.shape[2] * nc>>,
             den |-> a.den * b.den,
             rows |-> Evaluated([r \in 0..(a.shape[1] * nr - 1) |->
                         LET a_row == a.rows[r \div nr]
                             in_b  == b_rows[r % nr]
                         IN  Evaluated([c \in {ca * nc + b.col[x] :
                                                  ca \in DOMAIN a_row, x \in in_b} |->
                                 a_row[c \div nc]
                                     * SumOver(b.data, {x \in in_b : b.col[x] = c % nc})])])]
    IN  product(Evaluated([rb \in 0..(nr - 1) |-> {x \in DOMAIN b.row : b.row[x] = rb}]))

\* csr_array(([], ([], [])), shape=(size, size))
csr_empty(size) ==
    [shape |-> <<size, size>>, den |-> 1, rows |-> Evaluated([r \in 0..(size - 1) |-> <<>>])]

\* coset_reps_sum += mat
csr_add(a, b) ==
    LET den == IF a.den = b.den THEN a.den ELSE a.den * b.den
        fa  == den \div a.den
        fb  == den \div b.den
    IN  [shape |-> a.shape, den |-> den,
         rows |-> Evaluated([r \in DOMAIN a.rows |->
                     Evaluated([c \in DOMAIN a.rows[r] \cup DOMAIN b.rows[r] |->
                         (IF c \in DOMAIN a.rows[r] THEN a.rows[r][c] * fa ELSE 0)
                             + (IF c \in DOMAIN b.rows[r] THEN b.rows[r][c] * fb ELSE 0)])])]

\* factor with the number of lattice translations left out
coset_term_unscaled(reps, atomic_decompr_idx, i) ==
    LET tp == reps.base._translation_permutations
        n_lp == NumRows(tp)
        N == NumCols(tp)
        size_data == Pow(N, 3)
        factor == coset_factor(1, Len0(reps.base._unique_rotation_indices))
        term(mat_) ==
            IF mat_.status # "returned" THEN mat_
            ELSE [status |-> "returned",
                  mat |-> kron(sum_duplicates(mat_), scaled(reps.r_reps[i], factor))]
        permuted(permutation) ==
            term(csr_array([x \in 0..(size_data - 1) |-> 1],
                           [x \in 0..(size_data - 1) |-> atomic_decompr_idx[permutation[x]]],
                           atomic_decompr_idx,
                           <<Pow(N, 3) \div n_lp, Pow(N, 3) \div n_lp>>))
    IN  permuted(get_sigma3_rep(reps, i))

\* One pass of the loop over the coset representatives: the matrix that is
\* added to coset_reps_sum.
coset_term(reps, atomic_decompr_idx, i) ==
    LET tp == reps.base._translation_permutations
        n_lp == NumRows(tp)
        N == NumCols(tp)
        size_data == Pow(N, 3)
        factor == coset_factor(n_lp, Len0(reps.base._unique_rotation_indices))
        term(mat_) ==
            IF mat_.status # "returned" THEN mat_
            ELSE [status |-> "returned",
                  mat |-> kron(sum_duplicates(mat_), scaled(reps.r_reps[i], factor))]
        permuted(permutation) ==
            term(csr_array([x \in 0..(size_data - 1) |-> 1],
                           [x \in 0..(size_data - 1) |-> atomic_decompr_idx[permutation[x]]],
                           atomic_decompr_idx,
                           <<Pow(N, 3) \div n_lp, Pow(N, 3) \div n_lp>>))
    IN  permuted(get_sigma3_rep(reps, i))

get_compr_coset_projector_O3(reps) ==
    LET tp == reps.base._translation_permutations
        n_lp == NumRows(tp)
        N == NumCols(tp)
        size == (Pow(N, 3) * NAxes3) \div n_lp
        added(st, term) ==
            IF term.status # "returned" THEN [status |-> term.status]
            ELSE [status |-> "returned",
                  coset_reps_sum |-> csr_add(st.coset_reps_sum, term.mat)]
        summed(atomic_decompr_idx) ==
            IF atomic_decompr_idx.status # "returned"
            THEN [status |-> atomic_decompr_idx.status]
            ELSE ForRange(LAMBDA i, st :
                              IF st.status # "returned" THEN st
                              ELSE added(st, coset_term(reps, atomic_decompr_idx.indices, i)),
                          0, Len0(reps.base._unique_rotation_indices),
                          [status |-> "returned", coset_reps_sum |-> csr_empty(size)])
    IN  summed(get_atomic_lat_trans_decompr_indices_O3(tp))

(***************************************************************************)
(* A session with the representation classes                               *)
(***************************************************************************)
InitReps ==
    /\ trans_perms = NotCalled
    /\ atomic_idx = NotCalled
    /\ full_idx = NotCalled
    /\ mat = NotCalled
    /\ supercell \in Supercells
    /\ symmetry \in Orders
    /\ spg_reps = NotCalled
    /\ sigma = NotCalled
    /\ trace_sum = NotCalled
    /\ projector = NotCalled

\* SpgRepsO1(supercell), SpgRepsO2(supercell) or SpgRepsO3(supercell)
Construct(cls) ==
    /\ spg_reps = NotCalled
    /\ spg_reps' = CASE cls = "SpgRepsO1" -> SpgRepsO1_prepare(supercell, symmetry)
                     [] cls = "SpgRepsO2" -> SpgRepsO2_prepare(supercell, symmetry)
                     [] cls = "SpgRepsO3" -> SpgRepsO3_prepare(supercell, symmetry)
    /\ UNCHANGED <<utils_vars, supercell, symmetry, sigma, trace_sum, projector>>

CallGetSigma1Rep(i) ==
    /\ spg_reps # NotCalled
    /\ spg_reps.cls = "SpgRepsO1"
    /\ sigma = NotCalled
    /\ sigma' = [call |-> "get_sigma1_rep", i |-> i, ret |-> get_sigma1_rep(spg_reps, i)]
    /\ UNCHANGED <<utils_vars, supercell, symmetry, spg_reps, trace_sum, projector>>

CallGetSigma2Rep(i) ==
    /\ spg_reps # NotCalled
    /\ spg_reps.cls = "SpgRepsO2"
    /\ sigma = NotCalled
    /\ trace_sum = NotCalled
    /\ sigma' = [call |-> "get_sigma2_rep", i |-> i, ret |-> get_sigma2_rep(spg_reps, i)]
    /\ UNCHANGED <<utils_vars, supercell, symmetry, spg_reps, trace_sum, projector>>

\* test_spg_reps_o2 up to its assertion, on an object that has not been used
RunTraceSum ==
    /\ spg_reps # NotCalled
    /\ spg_reps.cls = "SpgRepsO2"
    /\ sigma = NotCalled
    /\ trace_sum = NotCalled
    /\ trace_sum' = [status |-> "returned", value |-> test_trace_sum(spg_reps)]
    /\ UNCHANGED <<utils_vars, supercell, symmetry, spg_reps, sigma, projector>>

\* The projector is built for the supercells of up to MaxAtoms atoms.
CallCosetProjector ==
    /\ spg_reps # NotCalled
    /\ spg_reps.cls = "SpgRepsO3"
    /\ Len0(supercell.numbers) <= MaxAtoms
    /\ projector = NotCalled
    /\ projector' = get_compr_coset_projector_O3(spg_reps)
    /\ UNCHANGED <<utils_vars, supercell, symmetry, spg_reps, sigma, trace_sum>>

\* The indices i that get_sigma1_rep and get_sigma2_rep accept.
CosetIndices ==
    IF spg_reps = NotCalled THEN {} ELSE DOMAIN spg_reps.base._unique_rotation_indices

NextReps ==
    \/ \E cls \in {"SpgRepsO1", "SpgRepsO2", "SpgRepsO3"} : Construct(cls)
    \/ \E i \in CosetIndices : CallGetSigma1Rep(i)
    \/ \E i \in CosetIndices : CallGetSigma2Rep(i)
    \/ RunTraceSum
    \/ CallCosetProjector

SpecReps == InitReps /\ [][NextReps]_vars

(***************************************************************************)
(* Properties of the representation classes                                *)
(***************************************************************************)
Constructed == spg_reps # NotCalled

\* The atom permutation of coset representative i.
RepPermutation(i) ==
    spg_reps.base._permutations[spg_reps.base._unique_rotation_indices[i]]

IsBijection(p) == {p[a] : a \in DOMAIN p} = DOMAIN p

\* C5: after SpgReps._prepare the number of coset representatives times the
\* number of translation permutations is the number of operations, the
\* translation permutations are the permutations of the operations whose
\* rotation is the identity, in their order, and unique_rotation_indices holds
\* exactly one index for every rotation matrix of the list.
C5_CosetsTimesTranslations ==
    Constructed =>
        LET self == spg_reps.base
            uri == self._unique_rotation_indices
            tperms == self._translation_permutations
            pure == {s \in DOMAIN self.rotations : self.rotations[s] = eye3}
        IN  /\ Len0(uri) * NumRows(tperms) = Len0(self.rotations)
            /\ Len0(tperms) = Cardinality(pure)
            /\ \A x \in DOMAIN tperms :
                   \E s \in pure : /\ Cardinality({q \in pure : q < s}) = x
                                   /\ tperms[x] = self._permutations[s]
            /\ \A s \in DOMAIN self.rotations :
                   Cardinality({x \in DOMAIN uri : self.rotations[uri[x]] = self.rotations[s]}) = 1

C5_Witness ==
    /\ Constructed
    /\ Len0(spg_reps.base._unique_rotation_indices) > 1
    /\ NumRows(spg_reps.base._translation_permutations) > 1
    /\ spg_reps.base._unique_rotation_indices[1] > 1

\* m has exactly one entry in every row and every column, of value 1.
IsPermutationMatrix(m, n) ==
    /\ m.shape = <<n, n>>
    /\ \A x \in DOMAIN m.data : m.data[x] = 1
    /\ \A r \in 0..(n - 1) : Cardinality({x \in DOMAIN m.row : m.row[x] = r}) = 1
    /\ \A c \in 0..(n - 1) : Cardinality({x \in DOMAIN m.col : m.col[x] = c}) = 1

\* The entries of column c of m are in row r.
ColumnIsInRow(m, c, r) == \A x \in DOMAIN m.col : m.col[x] = c => m.row[x] = r

\* C6: get_sigma1_rep(i) and get_sigma2_rep(i) are permutation matrices of
\* shapes N x N and N^2 x N^2; the entry of column a of get_sigma1_rep(i) is in
\* row p[a] and the entry of column a * N + b of get_sigma2_rep(i) is in row
\* p[a] * N + p[b], p the atom permutation of representative i.
C6_SigmaIsPermutationMatrix ==
    (sigma # NotCalled /\ IsBijection(RepPermutation(sigma.i))) =>
        LET perm == RepPermutation(sigma.i)
            N == Len0(perm)
        IN  /\ sigma.call = "get_sigma1_rep" =>
                   /\ IsPermutationMatrix(sigma.ret, N)
                   /\ \A a \in 0..(N - 1) : ColumnIsInRow(sigma.ret, a, perm[a])
            /\ sigma.call = "get_sigma2_rep" =>
                   /\ IsPermutationMatrix(sigma.ret, N * N)
                   /\ \A a, b \in 0..(N - 1) :
                          ColumnIsInRow(sigma.ret, a * N + b, perm[a] * N + perm[b])

\* get_sigma2_rep was called for a representative that sends two atoms to
\* places that differ from theirs and from each other's.
C6_Witness ==
    /\ sigma # NotCalled
    /\ sigma.call = "get_sigma2_rep"
    /\ LET perm == RepPermutation(sigma.i)
       IN  /\ IsBijection(perm)
           /\ \E a, b \in DOMAIN perm :
                  perm[a] * Len0(perm) + perm[b] # perm[b] * Len0(perm) + perm[a]
           /\ \E a \in DOMAIN perm : perm[a] # a

FixedAtoms(perm) == Cardinality({a \in DOMAIN perm : perm[a] = a})

\* C7: the trace of get_sigma2_rep(i) is the square of the number of atoms that
\* representative i leaves fixed, the trace_sum of the test is the sum of these
\* squares over the representatives, and it is 960 for the NaCl cell when the
\* first operation listed for every rotation is the one without translation.
C7_TraceIsFixedAtomsSquared ==
    /\ (sigma # NotCalled /\ sigma.call = "get_sigma2_rep") =>
           np_trace(toarray(sigma.ret)) = Pow(FixedAtoms(RepPermutation(sigma.i)), 2)
    /\ trace_sum # NotCalled =>
           /\ trace_sum.value =
                  SumOver([i \in DOMAIN spg_reps.base._unique_rotation_indices |->
                              Pow(FixedAtoms(RepPermutation(i)), 2)],
                          DOMAIN spg_reps.base._unique_rotation_indices)
           /\ (supercell = cell_nacl_111 /\ symmetry # "reversed") => trace_sum.value = 960

\* The test has run on the NaCl cell, whose representatives leave 8, 4 or 2
\* atoms fixed.
C7_Witness ==
    /\ trace_sum # NotCalled
    /\ supercell = cell_nacl_111
    /\ trace_sum.value = 960
    /\ {FixedAtoms(RepPermutation(i)) : i \in CosetIndices} = {2, 4, 8}

\* The product of two csr matrices of one denominator, over its square.
MatSquare(m) ==
    [r \in DOMAIN m.rows |->
        LET ks == DOMAIN m.rows[r]
        IN  [c \in UNION {DOMAIN m.rows[k] : k \in ks} |->
                SumOver([k \in ks |-> IF c \in DOMAIN m.rows[k]
                                      THEN m.rows[r][k] * m.rows[k][c] ELSE 0], ks)]]

Entry(rows, r, c) == IF c \in DOMAIN rows[r] THEN rows[r][c] ELSE 0

\* P * P = P, for P = rows / den:  rows * rows = den * rows
IsIdempotent(m) ==
    LET sq == MatSquare(m)
    IN  \A r \in DOMAIN m.rows :
            \A c \in DOMAIN sq[r] \cup DOMAIN m.rows[r] :
                Entry(sq, r, c) = m.den * Entry(m.rows, r, c)

IsSymmetric(m) ==
    \A r \in DOMAIN m.rows : \A c \in DOMAIN m.rows[r] : Entry(m.rows, c, r) = m.rows[r][c]

\* C1: built with no cutoff and no basis for a supercell whose operations form
\* a group, the coset projector is returned, is square of size 27 * N^3 / n_lp,
\* idempotent and symmetric.
C1_ProjectorIdempotentSymmetric ==
    projector # NotCalled =>
        LET N == Len0(supercell.numbers)
            n_lp == NumRows(spg_reps.base._translation_permutations)
            size == (NAxes3 * Pow(N, 3)) \div n_lp
        IN  /\ projector.status = "returned"
            /\ size * n_lp = NAxes3 * Pow(N, 3)
            /\ projector.coset_reps_sum.shape = <<size, size>>
            /\ IsIdempotent(projector.coset_reps_sum)
            /\ IsSymmetric(projector.coset_reps_sum)

\* A projector of several lattice translations and of representatives that
\* move atoms, with an entry off the diagonal.
C1_Witness ==
    /\ projector # NotCalled
    /\ projector.status = "returned"
    /\ NumRows(spg_reps.base._translation_permutations) > 1
    /\ \E i \in CosetIndices : \E a \in DOMAIN RepPermutation(i) :
           /\ RepPermutation(i)[a] # a
           /\ \A t \in DOMAIN spg_reps.base._translation_permutations :
                  spg_reps.base._translation_permutations[t] # RepPermutation(i)
    /\ \E r \in DOMAIN projector.coset_reps_sum.rows :
           \E c \in DOMAIN projector.coset_reps_sum.rows[r] :
               c # r /\ projector.coset_reps_sum.rows[r][c] # 0

====
